---- MODULE Spec2Model ----
(***************************************************************************)
(* Career-intelligence aggregation of the interview backend.               *)
(*                                                                         *)
(* Numbers.  A raw stored number is an integer count of thousandths        *)
(* (80125 is 80.125); a score produced by _to_score / round(x, 2) is an    *)
(* integer count of hundredths (8012 is 80.12).  Timestamps are positive   *)
(* integers, 0 is None.  Role names are positive integers in alphabetical  *)
(* order, 0 is a falsy role (None, "" or a missing key).                   *)
(***************************************************************************)
EXTENDS Integers, Sequences, FiniteSets, TLC

VARIABLES
    interviews,    \* the interviews collection
    intelligence,  \* the career_intelligence collection
    accounts,      \* the users, user_preferences, user_notifications and resumes collections
    now,           \* datetime.utcnow()
    ret,           \* the outcome of the call that finished last
    prev,          \* the outcome of the call before it (kept for the aggregator's calls)
    reqs,          \* the requests in flight, one per slot, each with its locals
    next_id        \* the next ObjectId insert_one hands out

vars == <<interviews, intelligence, accounts, now, ret, prev, reqs, next_id>>

----------------------------------------------------------------------------
(* Bounds of the model *)

MaxInterviews == 3
MaxCalls == 2
DayLen == 2
MaxInFlight == 2
MaxCreated == 1
MaxClock == 1

----------------------------------------------------------------------------
(* Values *)

Users == {"u1", "u2"}

REQUIRED_SKILLS == <<"DSA", "System Design", "Behavioral", "Communication">>

Skills == {REQUIRED_SKILLS[i] : i \in 1..Len(REQUIRED_SKILLS)}

Num(x) == [k |-> "num", v |-> x]
NoneV == [k |-> "none", v |-> 0]
Absent == [k |-> "absent", v |-> 0]
BadStr == [k |-> "str", v |-> 0]

RoleBackend == 1
RoleData == 2
RoleUnknown == 3

SeqSum(s) ==
    LET RECURSIVE Go(_)
        Go(i) == IF i = 0 THEN 0 ELSE s[i] + Go(i - 1)
    IN Go(Len(s))

(* round(a / b) to the nearest integer, ties to even (Python's round), b > 0 *)
RoundDiv(a, b) ==
    LET q == a \div b
        r == a % b
    IN IF 2 * r < b THEN q
       ELSE IF 2 * r > b THEN q + 1
       ELSE IF q % 2 = 0 THEN q ELSE q + 1

(* float(value or 0) rounded to 2 decimals and not clamped *)
ToScoreUnclamped(value) ==
    RoundDiv(IF value.k = "num" THEN value.v ELSE 0, 10)

(* _to_score: float(value or 0), 0 on a conversion error, round to 2        *)
(* decimals, clamp into [0, 100]                                            *)
_to_score(value) ==
    LET score == IF value.k = "num" THEN value.v ELSE 0
        rounded == RoundDiv(score, 10)
        lower == IF rounded < 10000 THEN rounded ELSE 10000
    IN IF lower > 0 THEN lower ELSE 0

(* a score already in hundredths, read back as a raw number *)
Stored(score) == Num(score * 10)

NoDict == [k |-> "absent", extra |-> FALSE, m |-> [s \in Skills |-> Absent]]
NoneDict == [k |-> "none", extra |-> FALSE, m |-> [s \in Skills |-> Absent]]
EmptyDict == [k |-> "dict", extra |-> FALSE, m |-> [s \in Skills |-> Absent]]
Dict(m) == [k |-> "dict", extra |-> FALSE, m |-> m]

(* truth value of a dict-valued field: a missing key, None and {} are falsy *)
Truthy(d) == d.k = "dict" /\ (d.extra \/ \E s \in Skills : d.m[s].k # "absent")

(* _extract_skill_scores *)
_extract_skill_scores(interview) ==
    LET raw == IF Truthy(interview.skill_scores) THEN interview.skill_scores
               ELSE IF Truthy(interview.skill_breakdown) THEN interview.skill_breakdown
               ELSE EmptyDict
    IN [s \in Skills |->
          _to_score(IF raw.m[s].k = "absent" THEN Num(0) ELSE raw.m[s])]

(* _extract_total_score: total_score when the key is present (None included), *)
(* else overall_score, else 0                                                 *)
_extract_total_score(interview) ==
    _to_score(IF interview.total_score.k # "absent" THEN interview.total_score
              ELSE IF interview.overall_score.k # "absent" THEN interview.overall_score
              ELSE Num(0))

----------------------------------------------------------------------------
(* The document store: a collection is a sequence of documents in storage  *)
(* order; a document is a record, a key the document lacks is not in its   *)
(* DOMAIN.                                                                  *)

(* a read that takes the default whatever the document holds *)
GetDefault(doc, key, default) == default

Get(doc, key, default) == IF key \in DOMAIN doc THEN doc[key] ELSE default

(* d placed after every element whose created_at is not later (stable) *)
InsertByCreated(sorted, d) ==
    LET n == Cardinality({i \in 1..Len(sorted) : sorted[i].created_at <= d.created_at})
    IN SubSeq(sorted, 1, n) \o <<d>> \o SubSeq(sorted, n + 1, Len(sorted))

(* a stable sort by created_at ascending *)
SortByCreated(docs) ==
    LET RECURSIVE Go(_)
        Go(i) == IF i = 0 THEN <<>> ELSE InsertByCreated(Go(i - 1), docs[i])
    IN Go(Len(docs))

(* the find without its sort: documents in storage order *)
FindInterviewsUnsorted(coll, user) ==
    LET Mine(d) == d.user_id = user
    IN SelectSeq(coll, Mine)

(* the find without its filter: every user's documents *)
FindInterviewsAnyUser(coll, user) == SortByCreated(coll)

(* interviews_collection.find({"user_id": u}, sort=[("created_at", 1)]) *)
FindInterviews(coll, user) ==
    LET Mine(d) == d.user_id = user
    IN SortByCreated(SelectSeq(coll, Mine))

(* find_one({"user_id": u}): the first matching document, as a sequence of *)
(* zero or one document                                                    *)
FindOne(coll, user) ==
    LET Mine(d) == d.user_id = user
        hits == SelectSeq(coll, Mine)
    IN IF hits = <<>> THEN <<>> ELSE <<hits[1]>>

(* an update that pushes the new trend onto the stored one instead of       *)
(* setting it                                                              *)
UpdateOnePushTrend(coll, user, payload) ==
    LET match == {i \in 1..Len(coll) : coll[i].user_id = user}
    IN IF match = {}
       THEN Append(coll, payload)
       ELSE LET first == CHOOSE i \in match : \A j \in match : i <= j
                old == coll[first]
            IN [coll EXCEPT ![first] =
                  [key \in (DOMAIN old) \cup (DOMAIN payload) |->
                     IF key = "score_trend" /\ key \in DOMAIN old
                     THEN old[key] \o payload[key]
                     ELSE IF key \in DOMAIN payload THEN payload[key] ELSE old[key]]]

(* an insert where the upsert should be *)
UpdateOneInsert(coll, user, payload) == Append(coll, payload)

(* update_one({"user_id": u}, {"$set": payload}, upsert=True): the first    *)
(* matching document keeps its other keys and takes payload's; with no      *)
(* match the query and the payload are inserted as a new document           *)
UpdateOneSet(coll, user, payload) ==
    LET match == {i \in 1..Len(coll) : coll[i].user_id = user}
    IN IF match = {}
       THEN Append(coll, payload)
       ELSE LET first == CHOOSE i \in match : \A j \in match : i <= j
                old == coll[first]
            IN [coll EXCEPT ![first] =
                  [key \in (DOMAIN old) \cup (DOMAIN payload) |->
                     IF key \in DOMAIN payload THEN payload[key] ELSE old[key]]]

----------------------------------------------------------------------------
(* rebuild_user_intelligence, step by step *)

(* a filter that drops only the interviews still pending *)
IsNotPending(item) == item.status # "pending"

IsCompleted(item) == item.status = "completed"

CompletedOf(items) == SelectSeq(items, IsCompleted)

(* a pending count that forgets to take the completed ones away *)
PendingCountAll(total_interviews, completed_count) == total_interviews

PendingCount(total_interviews, completed_count) == total_interviews - completed_count

CompletionRate(completed_count, total_interviews) ==
    IF total_interviews # 0 THEN RoundDiv(completed_count * 10000, total_interviews) ELSE 0

ScoreValues(completed) == [i \in 1..Len(completed) |-> _extract_total_score(completed[i])]

(* a mean that truncates instead of rounding *)
AverageScoreTruncated(score_values) ==
    IF score_values # <<>> THEN SeqSum(score_values) \div Len(score_values) ELSE 0

AverageScore(score_values) ==
    IF score_values # <<>> THEN RoundDiv(SeqSum(score_values), Len(score_values)) ELSE 0

SkillBucket(completed, skill) ==
    [i \in 1..Len(completed) |-> _extract_skill_scores(completed[i])[skill]]

(* an aggregation with a bucket for every key the interviews carry *)
AggregatedEveryKey(completed) ==
    LET others == IF \E i \in 1..Len(completed) :
                       \/ completed[i].skill_scores.extra
                       \/ completed[i].skill_breakdown.extra
                  THEN {"Other"} ELSE {}
    IN [skill \in Skills \cup others |->
          IF skill \in Skills THEN AverageScore(SkillBucket(completed, skill)) ELSE 0]

AggregatedSkillScores(completed) ==
    [skill \in Skills |-> AverageScore(SkillBucket(completed, skill))]

(* the last key in the dict's order whose value is the largest / smallest *)
LastBest(scores, sign) ==
    LET Better(a, b) == sign * a > sign * b
        idx == CHOOSE i \in 1..Len(REQUIRED_SKILLS) :
                 /\ \A j \in 1..Len(REQUIRED_SKILLS) :
                      ~Better(scores[REQUIRED_SKILLS[j]], scores[REQUIRED_SKILLS[i]])
                 /\ \A j \in (i + 1)..Len(REQUIRED_SKILLS) :
                      Better(scores[REQUIRED_SKILLS[i]], scores[REQUIRED_SKILLS[j]])
    IN REQUIRED_SKILLS[idx]

(* max(d, key=d.get) / min(d, key=d.get): the first key in the dict's order *)
(* whose value is the largest (sign 1) / smallest (sign -1)                 *)
FirstBest(scores, sign) ==
    LET Better(a, b) == sign * a > sign * b
        idx == CHOOSE i \in 1..Len(REQUIRED_SKILLS) :
                 /\ \A j \in 1..Len(REQUIRED_SKILLS) :
                      ~Better(scores[REQUIRED_SKILLS[j]], scores[REQUIRED_SKILLS[i]])
                 /\ \A j \in 1..(i - 1) :
                      Better(scores[REQUIRED_SKILLS[i]], scores[REQUIRED_SKILLS[j]])
    IN REQUIRED_SKILLS[idx]

(* a strongest skill picked without looking at the completed count *)
StrongestSkillUnguarded(scores, completed_count) == FirstBest(scores, 1)

StrongestSkill(scores, completed_count) ==
    IF completed_count # 0 THEN FirstBest(scores, 1) ELSE "-"

WeakestSkill(scores, completed_count) ==
    IF completed_count # 0 THEN FirstBest(scores, -1) ELSE "-"

(* strftime("%Y-%m-%d"): the day a timestamp falls on *)
Strftime(t) == t \div DayLen

TrendDate(interview) ==
    LET trend_date == IF interview.completed_at # 0 THEN interview.completed_at
                      ELSE IF interview.updated_at # 0 THEN interview.updated_at
                      ELSE interview.created_at
    IN IF trend_date # 0 THEN Strftime(trend_date) ELSE -1

Trend(completed) ==
    [index \in 1..Len(completed) |->
       [interview_id |-> completed[index]._id,
        attempt |-> index,
        date |-> TrendDate(completed[index]),
        score |-> _extract_total_score(completed[index])]]

(* a role read from the role key alone *)
RoleOfRoleOnly(interview) == IF interview.role # 0 THEN interview.role ELSE RoleUnknown

RoleOf(interview) ==
    IF interview.role # 0 THEN interview.role
    ELSE IF interview.job_role # 0 THEN interview.job_role
    ELSE RoleUnknown

RoleEntry(completed, role) ==
    LET OfRole(d) == RoleOf(d) = role
        scores == ScoreValues(SelectSeq(completed, OfRole))
    IN [role |-> role,
        count |-> Len(scores),
        average_score |-> RoundDiv(SeqSum(scores), Len(scores))]

RoleBreakdown(completed) ==
    LET roles == {RoleOf(completed[i]) : i \in 1..Len(completed)}
        RECURSIVE Sorted(_)
        Sorted(S) == IF S = {} THEN <<>>
                     ELSE LET least == CHOOSE r \in S : \A q \in S : r <= q
                          IN <<RoleEntry(completed, least)>> \o Sorted(S \ {least})
    IN Sorted(roles)

(* the rules alone, without the tip for when none of them fires *)
RecommendationsWithoutFallback(scores, average_score) ==
    LET r1 == IF scores["System Design"] < 7000
              THEN <<"Improve system design fundamentals">> ELSE <<>>
        r2 == IF scores["DSA"] < 7000
              THEN <<"Practice DSA problem solving regularly">> ELSE <<>>
        r3 == IF average_score < 7500
              THEN <<"Practice timed mock interviews to improve consistency">> ELSE <<>>
    IN r1 \o r2 \o r3

Recommendations(scores, average_score) ==
    LET r1 == IF scores["System Design"] < 7000
              THEN <<"Improve system design fundamentals">> ELSE <<>>
        r2 == IF scores["DSA"] < 7000
              THEN <<"Practice DSA problem solving regularly">> ELSE <<>>
        r3 == IF average_score < 7500
              THEN <<"Practice timed mock interviews to improve consistency">> ELSE <<>>
        rules == r1 \o r2 \o r3
    IN IF rules = <<>> THEN <<"Maintain consistency with advanced interview sets">>
       ELSE rules

(* the payload assembled from the interviews read (lines 134-148) *)
Payload(user, items, t) ==
    LET completed == CompletedOf(items)
        total_interviews == Len(items)
        completed_count == Len(completed)
        average_score == AverageScore(ScoreValues(completed))
        scores == AggregatedSkillScores(completed)
    IN [user_id |-> user,
        total_interviews |-> total_interviews,
        completed_interviews |-> completed_count,
        pending_interviews |-> PendingCount(total_interviews, completed_count),
        completion_rate |-> CompletionRate(completed_count, total_interviews),
        average_score |-> average_score,
        strongest_skill |-> StrongestSkill(scores, completed_count),
        weakest_skill |-> WeakestSkill(scores, completed_count),
        skill_scores |-> scores,
        score_trend |-> Trend(completed),
        role_breakdown |-> RoleBreakdown(completed),
        updated_at |-> t,
        recommendations |-> Recommendations(scores, average_score)]

(* a validation that checks the count and the average only *)
ValidateCountsOnly(payload) ==
    LET average_score == _to_score(Stored(payload.average_score))
    IN /\ payload.total_interviews >= 0
       /\ ~(average_score < 0 \/ average_score > 10000)

(* _validate_intelligence: TRUE when it returns, FALSE when it raises *)
_validate_intelligence(payload) ==
    LET trend == payload.score_trend
        ids == {trend[i].interview_id : i \in 1..Len(trend)}
        average_score == _to_score(Stored(payload.average_score))
    IN /\ payload.total_interviews >= 0
       /\ ~(average_score < 0 \/ average_score > 10000)
       /\ Len(trend) = Cardinality(ids)

(* the payload as _validate_intelligence leaves it: skill_scores rewritten *)
(* through _to_score in place                                              *)
Validated(payload) ==
    LET skill_scores == payload.skill_scores
    IN [payload EXCEPT !.skill_scores =
          [s \in (DOMAIN skill_scores) \cup Skills |->
             IF s \in Skills
             THEN _to_score(Stored(IF s \in DOMAIN skill_scores THEN skill_scores[s] ELSE 0))
             ELSE skill_scores[s]]]

(* the dict rebuild_user_intelligence returns (lines 155-169) *)
RebuildResult(payload) ==
    [total_interviews |-> payload.total_interviews,
     completed_interviews |-> payload.completed_interviews,
     pending_interviews |-> payload.pending_interviews,
     completion_rate |-> payload.completion_rate,
     average_score |-> payload.average_score,
     role_readiness |-> payload.average_score,
     strongest_skill |-> payload.strongest_skill,
     weakest_skill |-> payload.weakest_skill,
     skill_breakdown |-> payload.skill_scores,
     trend |-> [i \in 1..Len(payload.score_trend) |->
                  [attempt |-> payload.score_trend[i].attempt,
                   score |-> payload.score_trend[i].score,
                   date |-> payload.score_trend[i].date]],
     role_breakdown |-> payload.role_breakdown,
     recommendations |-> payload.recommendations,
     updated_at |-> payload.updated_at]

(* the dict get_or_create_user_intelligence builds from a stored document *)
(* (lines 180-204)                                                         *)
CachedResult(intelligence_doc) ==
    LET skill_scores == Get(intelligence_doc, "skill_scores", [s \in Skills |-> 0])
        trend == Get(intelligence_doc, "score_trend", <<>>)
        average == _to_score(Stored(Get(intelligence_doc, "average_score", 0)))
    IN [total_interviews |-> Get(intelligence_doc, "total_interviews", 0),
        completed_interviews |-> Get(intelligence_doc, "completed_interviews", 0),
        pending_interviews |-> Get(intelligence_doc, "pending_interviews", 0),
        completion_rate |-> _to_score(Stored(Get(intelligence_doc, "completion_rate", 0))),
        average_score |-> average,
        role_readiness |-> average,
        strongest_skill |-> Get(intelligence_doc, "strongest_skill", "-"),
        weakest_skill |-> Get(intelligence_doc, "weakest_skill", "-"),
        skill_breakdown |-> [s \in Skills |-> _to_score(Stored(skill_scores[s]))],
        trend |-> [i \in 1..Len(trend) |->
                     [attempt |-> IF trend[i].attempt # 0 THEN trend[i].attempt ELSE i,
                      score |-> _to_score(Stored(trend[i].score)),
                      date |-> trend[i].date]],
        role_breakdown |-> Get(intelligence_doc, "role_breakdown", <<>>),
        recommendations |-> Get(intelligence_doc, "recommendations", <<>>),
        updated_at |-> Get(intelligence_doc, "updated_at", 0)]

(* a rebuild that writes before it validates *)
RebuildWriteUnchecked(intel, user, items, t) ==
    UpdateOneSet(intel, user, Validated(Payload(user, items, t)))

(* what one call of rebuild_user_intelligence does to the intelligence      *)
(* collection, having read items at time t: nothing when validation raises  *)
RebuildWrite(intel, user, items, t) ==
    LET payload == Payload(user, items, t)
    IN IF _validate_intelligence(payload)
       THEN UpdateOneSet(intel, user, Validated(payload))
       ELSE intel

(* the outcome of that call for its caller *)
RebuildReturn(op, user, items, t) ==
    LET payload == Payload(user, items, t)
    IN IF _validate_intelligence(payload)
       THEN [op |-> op, user |-> user, raised |-> FALSE,
             value |-> <<RebuildResult(Validated(payload))>>]
       ELSE [op |-> op, user |-> user, raised |-> TRUE, value |-> <<>>]

NoCall == [op |-> "none", user |-> "u1", raised |-> FALSE, value |-> <<>>]

Slots == 1..MaxInFlight

(* a slot with no request in it *)
Idle == [op |-> "idle", user |-> "u1", pc |-> "idle", iid |-> 0, qid |-> 0,
         interview |-> <<>>, answers |-> <<>>, payload |-> <<>>]

NoRequests == [s \in Slots |-> Idle]

----------------------------------------------------------------------------
(* Documents the stores are seeded with *)

FullSkills(a, b, c, d) ==
    Dict([s \in Skills |->
            IF s = "DSA" THEN a ELSE IF s = "System Design" THEN b
            ELSE IF s = "Behavioral" THEN c ELSE d])

Interview(id, user, status, role, job_role, total, overall, skills, breakdown, created, completed, updated) ==
    [_id |-> id, user_id |-> user, status |-> status, role |-> role,
     job_role |-> job_role, domain |-> "general",
     total_score |-> total, overall_score |-> overall,
     skill_scores |-> skills, skill_breakdown |-> breakdown,
     created_at |-> created, completed_at |-> completed, updated_at |-> updated,
     questions |-> <<"technical", "behavioral">>, answers |-> <<>>,
     current_question_index |-> 0]

(* kinds 1 to 8 are interviews with an _id of their own; kind 9 is a second *)
(* document with the _id of the first                                      *)
Kinds == 1..8

KindsWithDuplicate == 1..9

(* the seeded interview of kind k stored at position id, created at time c *)
Seeded(k, id, c) ==
    CASE k = 1 -> Interview(id, "u1", "completed", RoleBackend, 0, Num(60000), Absent,
                     FullSkills(Num(60000), Num(55000), Num(50000), Num(52000)), NoDict,
                     c, c, c)
      [] k = 2 -> Interview(id, "u1", "completed", RoleData, 0, Num(80000), Absent,
                     FullSkills(Num(80000), Absent, Absent, Absent), NoDict, c, c, c)
      [] k = 3 -> Interview(id, "u1", "completed", RoleData, 0, Num(100000), Absent,
                     FullSkills(Num(100000), Num(100000), Num(100000), Num(100000)),
                     NoDict, c, c, c)
      [] k = 4 -> Interview(id, "u1", "pending", RoleBackend, 0, NoneV, Absent,
                     EmptyDict, NoDict, c, 0, c)
      [] k = 5 -> Interview(id, "u1", "in_progress", RoleData, 0, Num(90000), Absent,
                     FullSkills(Num(90000), Num(90000), Num(90000), Num(90000)),
                     NoDict, c, 0, c)
      [] k = 6 -> Interview(id, "u1", "completed", 0, RoleBackend, Absent, Num(70125),
                     NoDict, FullSkills(Absent, Num(75000), Absent, Absent), c, 0, 0)
      [] k = 7 -> Interview(id, "u1", "completed", 0, 0, Num(150000), Num(10000),
                     [FullSkills(NoneV, BadStr, Num(-5000), Num(120000)) EXCEPT !.extra = TRUE],
                     NoDict, c, 0, c)
      [] k = 8 -> Interview(id, "u2", "completed", RoleBackend, 0, Num(40000), Absent,
                     NoneDict, EmptyDict, c, c, c)
      [] k = 9 -> Interview(1, "u1", "completed", RoleData, 0, Num(80000), Absent,
                     NoDict, NoDict, 1, 1, 1)

(* a summary an earlier deployment left behind: stale values, and a key the *)
(* present rebuild does not produce                                         *)
LegacySummary ==
    [user_id |-> "u1",
     total_interviews |-> 7,
     completed_interviews |-> 5,
     pending_interviews |-> 2,
     completion_rate |-> 7143,
     average_score |-> 5000,
     strongest_skill |-> "Communication",
     weakest_skill |-> "Behavioral",
     skill_scores |-> [s \in Skills |-> 5000],
     score_trend |-> <<[interview_id |-> 9, attempt |-> 1, date |-> 0, score |-> 5000]>>,
     role_breakdown |-> <<[role |-> RoleUnknown, count |-> 5, average_score |-> 5000]>>,
     updated_at |-> 1,
     recommendations |-> <<"Practice DSA problem solving regularly">>,
     domain_performance |-> 1]

(* a summary of the present shape, written by an earlier rebuild *)
StaleSummary == Validated(Payload("u1", <<Seeded(1, 1, 1)>>, 1))

SeededSummaries == {<<>>, <<LegacySummary>>, <<StaleSummary>>}

(* storage order against creation order: the same, or reversed *)
CreatedAt(order, i, n) == IF order = "asc" THEN i ELSE n + 1 - i

(* every multiset of up to MaxInterviews kinds, stored in either order *)
KindLists(K, n) == {kinds \in [1..n -> K] : \A i \in 1..(n - 1) : kinds[i] <= kinds[i + 1]}

SeededInterviews(K) ==
    UNION {{[i \in 1..n |-> Seeded(kinds[i], i, CreatedAt(order, i, n))] :
              kinds \in KindLists(K, n), order \in {"asc", "desc"}} :
           n \in 0..MaxInterviews}

FirstTick == MaxInterviews + 1

(* the other collections keyed by the user: the account, the preferences,   *)
(* the notification settings and the resumes; u1 has uploaded two resumes   *)
SeededAccounts ==
    [users |-> <<[_id |-> "u1"], [_id |-> "u2"]>>,
     user_preferences |-> <<[user_id |-> "u1"], [user_id |-> "u2"]>>,
     user_notifications |-> <<[user_id |-> "u2"], [user_id |-> "u1"]>>,
     resumes |-> <<[_id |-> 1, user_id |-> "u1"], [_id |-> 2, user_id |-> "u2"],
                   [_id |-> 3, user_id |-> "u1"]>>]

----------------------------------------------------------------------------
(* The aggregator called on a seeded store *)

Init ==
    /\ interviews \in SeededInterviews(Kinds)
    /\ intelligence \in SeededSummaries
    /\ now = FirstTick
    /\ ret = NoCall
    /\ prev = NoCall
    /\ reqs = NoRequests
    /\ next_id = MaxInterviews + 1
    /\ accounts = SeededAccounts

(* rebuild_user_intelligence(user), the whole call *)
Rebuild(user) ==
    /\ now < FirstTick + MaxCalls
    /\ LET items == FindInterviews(interviews, user)
       IN /\ intelligence' = RebuildWrite(intelligence, user, items, now)
          /\ ret' = RebuildReturn("rebuild", user, items, now)
    /\ now' = now + 1
    /\ prev' = ret
    /\ UNCHANGED <<accounts, interviews, reqs, next_id>>

(* a read that reports a missing summary instead of building it *)
GetOrCreateNotFound(user) ==
    /\ now < FirstTick + MaxCalls
    /\ LET found == FindOne(intelligence, user)
       IN ret' = IF found = <<>>
                 THEN [op |-> "get_or_create", user |-> user, raised |-> TRUE,
                       value |-> <<>>]
                 ELSE [op |-> "get_or_create", user |-> user, raised |-> FALSE,
                       value |-> <<CachedResult(found[1])>>]
    /\ now' = now + 1
    /\ prev' = ret
    /\ UNCHANGED <<accounts, interviews, intelligence, reqs, next_id>>

(* get_or_create_user_intelligence(user), the whole call *)
GetOrCreate(user) ==
    /\ now < FirstTick + MaxCalls
    /\ LET found == FindOne(intelligence, user)
           items == FindInterviews(interviews, user)
       IN IF found = <<>>
          THEN /\ intelligence' = RebuildWrite(intelligence, user, items, now)
               /\ ret' = RebuildReturn("get_or_create", user, items, now)
          ELSE /\ intelligence' = intelligence
               /\ ret' = [op |-> "get_or_create", user |-> user, raised |-> FALSE,
                          value |-> <<CachedResult(found[1])>>]
    /\ now' = now + 1
    /\ prev' = ret
    /\ UNCHANGED <<accounts, interviews, reqs, next_id>>

Next ==
    \/ \E user \in Users : Rebuild(user)
    \/ \E user \in Users : GetOrCreate(user)

Spec == Init /\ [][Next]_vars

(* The aggregator called on a store that holds duplicate interview documents *)

InitDuplicates ==
    /\ interviews \in SeededInterviews(KindsWithDuplicate)
    /\ intelligence \in SeededSummaries
    /\ now = FirstTick
    /\ ret = NoCall
    /\ prev = NoCall
    /\ reqs = NoRequests
    /\ next_id = MaxInterviews + 1
    /\ accounts = SeededAccounts

SpecDuplicates == InitDuplicates /\ [][Next]_vars

----------------------------------------------------------------------------
(* The interview endpoints.  A request occupies a slot from its first       *)
(* database operation to its response; each action is one database          *)
(* operation of a handler together with the local computation around it,    *)
(* so requests served by different workers interleave between operations.   *)

(* a lookup by _id alone, whoever owns the document *)
FindInterviewAnyOwner(coll, id, user) ==
    LET Hit(d) == d._id = id
        hits == SelectSeq(coll, Hit)
    IN IF hits = <<>> THEN <<>> ELSE <<hits[1]>>

(* find_one({"_id": id, "user_id": user}) *)
FindInterview(coll, id, user) ==
    LET Hit(d) == d._id = id /\ d.user_id = user
        hits == SelectSeq(coll, Hit)
    IN IF hits = <<>> THEN <<>> ELSE <<hits[1]>>

(* find_one({"_id": id, "user_id": user, "status": "pending"}) *)
FindPendingInterview(coll, id, user) ==
    LET Hit(d) == d._id = id /\ d.user_id = user /\ d.status = "pending"
        hits == SelectSeq(coll, Hit)
    IN IF hits = <<>> THEN <<>> ELSE <<hits[1]>>

(* find_one({"_id": id}) *)
FindById(coll, id) ==
    LET Hit(d) == d._id = id
        hits == SelectSeq(coll, Hit)
    IN IF hits = <<>> THEN <<>> ELSE <<hits[1]>>

(* update_one(filter, {"$set": changes}): the first document the filter     *)
(* matches takes the changes; with no match nothing happens                *)
UpdateFirst(coll, match, changes) ==
    IF match = {} THEN coll
    ELSE LET first == CHOOSE i \in match : \A j \in match : i <= j
         IN [coll EXCEPT ![first] =
               [key \in DOMAIN coll[first] |->
                  IF key \in DOMAIN changes THEN changes[key] ELSE coll[first][key]]]

(* the documents a filter on _id alone matches *)
AnyWithId(coll, id) == {i \in 1..Len(coll) : coll[i]._id = id}

(* the documents the filter {"_id": id, "status": "pending"} matches *)
PendingWithId(coll, id) ==
    {i \in 1..Len(coll) : coll[i]._id = id /\ coll[i].status = "pending"}

(* a delete that removes nothing *)
DeleteNothing(coll, id) == coll

(* delete_one({"_id": id}) *)
DeleteById(coll, id) ==
    LET match == {i \in 1..Len(coll) : coll[i]._id = id}
    IN IF match = {} THEN coll
       ELSE LET first == CHOOSE i \in match : \A j \in match : i <= j
            IN SubSeq(coll, 1, first - 1) \o SubSeq(coll, first + 1, Len(coll))

(* what a client asks for in InterviewSetup, with the questions generated *)
Setups ==
    {[job_role |-> RoleBackend, domain |-> "backend",
      questions |-> <<"technical", "behavioral">>],
     [job_role |-> RoleData, domain |-> "data", questions |-> <<"technical">>]}

(* interview_doc of create_interview *)
NewInterview(id, user, setup, t) ==
    [_id |-> id, user_id |-> user, status |-> "pending", role |-> setup.job_role,
     job_role |-> 0, domain |-> setup.domain,
     total_score |-> NoneV, overall_score |-> Absent,
     skill_scores |-> EmptyDict, skill_breakdown |-> NoDict,
     created_at |-> t, completed_at |-> 0, updated_at |-> t,
     questions |-> setup.questions, answers |-> <<>>,
     current_question_index |-> 0]

(* the scores evaluate_answer hands back: the fallback 50.0, or a score *)
AnswerScores == {Num(50000), Num(80000)}

(* answer_record of submit_answer *)
AnswerRecord(question_id, question, score) ==
    [question_id |-> question_id, question |-> question, score |-> score,
     communication |-> Absent]

(* the answers a client may send with /submit *)
ClientAnswers ==
    <<[question_id |-> 0, question |-> "behavioral", score |-> Num(70000),
       communication |-> Num(60000)]>>

Min(a, b) == IF a < b THEN a ELSE b

RawNumber(raw) == IF raw.k = "num" THEN raw.v ELSE 0

(* round(mean of a raw field over some answers, 2), 0 with no answer *)
MeanOf(answers, field) ==
    IF answers = <<>> THEN 0
    ELSE RoundDiv(SeqSum([i \in 1..Len(answers) |-> RawNumber(answers[i][field])]),
                  10 * Len(answers))

(* the $set of _submit_and_complete_interview (lines 475-537), computed     *)
(* from the interview the handler holds                                     *)
CompletionOf(interview, t) ==
    LET answers == interview.answers
        overall_score == MeanOf(answers, "score")
        IsBehavioral(a) == a.question = "behavioral"
        dsa_score == IF interview.domain = "data" THEN overall_score ELSE 0
        system_design_score == IF interview.domain = "backend" THEN overall_score ELSE 0
        behavioral_score == MeanOf(SelectSeq(answers, IsBehavioral), "score")
        communication_score == MeanOf(answers, "communication")
    IN [status |-> "completed",
        total_score |-> Stored(overall_score),
        skill_scores |-> FullSkills(Stored(dsa_score), Stored(system_design_score),
                                    Stored(behavioral_score), Stored(communication_score)),
        current_question_index |-> Len(interview.questions),
        completed_at |-> t,
        updated_at |-> t]

Response(op, user, raised, value) ==
    [op |-> op, user |-> user, raised |-> raised, value |-> value]

(* the request in slot s answers its client and leaves the slot *)
Finish(s, response) ==
    /\ reqs' = [reqs EXCEPT ![s] = Idle]
    /\ ret' = response

(* the request in slot s goes on to its next operation *)
Goto(s, request) == reqs' = [reqs EXCEPT ![s] = request] /\ ret' = ret

(* create_interview: the resume lookup and the question generation may      *)
(* fail; otherwise one insert_one                                           *)
CreateInterview(s, user, setup, outcome) ==
    /\ reqs[s].pc = "idle"
    /\ IF outcome = "created"
       THEN /\ next_id <= MaxCreated
            /\ interviews' = Append(interviews, NewInterview(next_id, user, setup, now))
            /\ next_id' = next_id + 1
            /\ ret' = Response("create", user, FALSE, <<>>)
       ELSE /\ ret' = Response("create", user, TRUE, <<>>)
            /\ UNCHANGED <<accounts, interviews, next_id>>
    /\ UNCHANGED <<accounts, intelligence, now, prev, reqs>>

(* submit_answer, lines 294-348: the lookup and the checks on the request *)
SubmitAnswerFind(s, user, id, question_id, mode) ==
    /\ reqs[s].pc = "idle"
    /\ LET found == FindPendingInterview(interviews, id, user)
       IN IF found = <<>>
          THEN Finish(s, Response("submit_answer", user, TRUE, <<>>))
          ELSE IF \/ question_id >= Len(found[1].questions)
                  \/ question_id # found[1].current_question_index
                  \/ mode = "empty"
               THEN Finish(s, Response("submit_answer", user, TRUE, <<>>))
               ELSE Goto(s, [Idle EXCEPT !.op = "submit_answer", !.user = user,
                                         !.pc = mode, !.iid = id,
                                         !.qid = question_id, !.interview = found])
    /\ UNCHANGED <<accounts, interviews, intelligence, now, prev, next_id>>

(* submit_answer, lines 323-341: a skipped question moves the index on *)
SubmitAnswerSkip(s) ==
    /\ reqs[s].pc = "skip"
    /\ LET r == reqs[s]
           next_index == Min(r.qid + 1, Len(r.interview[1].questions))
       IN interviews' =
            UpdateFirst(interviews, {i \in 1..Len(interviews) : interviews[i]._id = r.iid},
                        [current_question_index |-> next_index, updated_at |-> now])
    /\ Finish(s, Response("submit_answer", reqs[s].user, FALSE, <<>>))
    /\ UNCHANGED <<accounts, intelligence, now, prev, next_id>>

(* submit_answer, lines 350-398: the evaluated answer is pushed *)
SubmitAnswerStore(s, score) ==
    /\ reqs[s].pc = "answer"
    /\ LET r == reqs[s]
           question == r.interview[1].questions[r.qid + 1]
           next_index == Min(r.qid + 1, Len(r.interview[1].questions))
           match == {i \in 1..Len(interviews) : interviews[i]._id = r.iid}
           stored == IF match = {} THEN <<>>
                     ELSE interviews[CHOOSE i \in match : \A j \in match : i <= j].answers
       IN interviews' =
            UpdateFirst(interviews, match,
                        [answers |-> Append(stored, AnswerRecord(r.qid, question, score)),
                         current_question_index |-> next_index,
                         updated_at |-> now])
    /\ Finish(s, Response("submit_answer", reqs[s].user, FALSE, <<>>))
    /\ UNCHANGED <<accounts, intelligence, now, prev, next_id>>

(* _submit_and_complete_interview, lines 405-447: the lookup; a completed  *)
(* interview is reported as it is                                           *)
CompleteFind(s, user, id, answers) ==
    /\ reqs[s].pc = "idle"
    /\ LET found == FindInterview(interviews, id, user)
       IN IF found = <<>>
          THEN Finish(s, Response("complete", user, TRUE, <<>>))
          ELSE IF found[1].status = "completed"
               THEN Finish(s, Response("complete", user, FALSE, <<>>))
               ELSE Goto(s, [Idle EXCEPT !.op = "complete", !.user = user, !.iid = id,
                                         !.pc = IF answers = <<>> THEN "evaluate"
                                                ELSE "set_answers",
                                         !.interview = found, !.answers = answers])
    /\ UNCHANGED <<accounts, interviews, intelligence, now, prev, next_id>>

(* lines 449-459: the answers sent with the request replace the stored ones *)
CompleteSetAnswers(s) ==
    /\ reqs[s].pc = "set_answers"
    /\ LET r == reqs[s]
       IN interviews' =
            UpdateFirst(interviews, {i \in 1..Len(interviews) : interviews[i]._id = r.iid},
                        [answers |-> r.answers,
                         current_question_index |-> Len(r.interview[1].questions),
                         updated_at |-> now])
    /\ Goto(s, [reqs[s] EXCEPT !.pc = "reread"])
    /\ UNCHANGED <<accounts, intelligence, now, prev, next_id>>

(* line 460: the interview is read again; the handler fails on None *)
CompleteReread(s) ==
    /\ reqs[s].pc = "reread"
    /\ LET found == FindById(interviews, reqs[s].iid)
       IN IF found = <<>>
          THEN Finish(s, Response("complete", reqs[s].user, TRUE, <<>>))
          ELSE Goto(s, [reqs[s] EXCEPT !.pc = "evaluate", !.interview = found])
    /\ UNCHANGED <<accounts, interviews, intelligence, now, prev, next_id>>

(* lines 462-538: the scores are computed from the interview held and the  *)
(* interview is completed if it is still pending                            *)
CompleteUpdate(s) ==
    /\ reqs[s].pc = "evaluate"
    /\ LET r == reqs[s]
       IN interviews' =
            UpdateFirst(interviews, PendingWithId(interviews, r.iid),
                        CompletionOf(r.interview[1], now))
    /\ Goto(s, [reqs[s] EXCEPT !.pc = "rebuild_read"])
    /\ UNCHANGED <<accounts, intelligence, now, prev, next_id>>

(* delete_interview, lines 650-659: the lookup *)
DeleteFind(s, user, id) ==
    /\ reqs[s].pc = "idle"
    /\ LET interview == FindInterview(interviews, id, user)
       IN IF interview = <<>>
          THEN Finish(s, Response("delete", user, TRUE, <<>>))
          ELSE Goto(s, [Idle EXCEPT !.op = "delete", !.user = user, !.iid = id,
                                    !.interview = interview, !.pc = "delete"])
    /\ UNCHANGED <<accounts, interviews, intelligence, now, prev, next_id>>

(* line 662: delete_one *)
DeleteOne(s) ==
    /\ reqs[s].pc = "delete"
    /\ interviews' = DeleteById(interviews, reqs[s].iid)
    /\ Goto(s, [reqs[s] EXCEPT !.pc = "rebuild_read"])
    /\ UNCHANGED <<accounts, intelligence, now, prev, next_id>>

(* get_interview, lines 612-640: the lookup and the interview as stored *)
GetInterview(s, user, id) ==
    /\ reqs[s].pc = "idle"
    /\ LET interview == FindInterview(interviews, id, user)
       IN IF interview = <<>>
          THEN Finish(s, Response("get", user, TRUE, <<>>))
          ELSE Finish(s, Response("get", user, FALSE, interview))
    /\ UNCHANGED <<accounts, interviews, intelligence, now, prev, next_id>>

(* rebuild_user_intelligence, lines 63-150: the interviews are read, the    *)
(* payload is assembled and validated; a failed validation ends the request *)
ReadAndAssemble(s, op, user) ==
    LET payload == Payload(user, FindInterviews(interviews, user), now)
    IN IF _validate_intelligence(payload)
       THEN Goto(s, [reqs[s] EXCEPT !.op = op, !.user = user, !.pc = "rebuild_write",
                                    !.payload = <<Validated(payload)>>])
       ELSE Finish(s, Response(op, user, TRUE, <<>>))

(* the rebuild that ends complete and delete *)
RebuildRead(s) ==
    /\ reqs[s].pc = "rebuild_read"
    /\ ReadAndAssemble(s, reqs[s].op, reqs[s].user)
    /\ UNCHANGED <<accounts, interviews, intelligence, now, prev, next_id>>

(* POST /api/career-intelligence/rebuild *)
RebuildStart(s, user) ==
    /\ reqs[s].pc = "idle"
    /\ ReadAndAssemble(s, "rebuild", user)
    /\ UNCHANGED <<accounts, interviews, intelligence, now, prev, next_id>>

(* lines 152-169: the upsert, and the summary goes back to the caller *)
RebuildUpsert(s) ==
    /\ reqs[s].pc = "rebuild_write"
    /\ LET r == reqs[s]
       IN /\ intelligence' = UpdateOneSet(intelligence, r.user, r.payload[1])
          /\ Finish(s, Response(r.op, r.user, FALSE, <<RebuildResult(r.payload[1])>>))
    /\ UNCHANGED <<accounts, interviews, now, prev, next_id>>

(* get_or_create_user_intelligence, lines 176-204: the cached summary, or  *)
(* on to a rebuild                                                          *)
GetOrCreateFind(s, user) ==
    /\ reqs[s].pc = "idle"
    /\ LET found == FindOne(intelligence, user)
       IN IF found = <<>>
          THEN Goto(s, [Idle EXCEPT !.op = "get_or_create", !.user = user,
                                    !.pc = "rebuild_read"])
          ELSE Finish(s, Response("get_or_create", user, FALSE,
                                  <<CachedResult(found[1])>>))
    /\ UNCHANGED <<accounts, interviews, intelligence, now, prev, next_id>>

(* time passes *)
Tick ==
    /\ now < FirstTick + MaxClock
    /\ now' = now + 1
    /\ UNCHANGED <<accounts, interviews, intelligence, ret, prev, reqs, next_id>>

InterviewIds == {interviews[i]._id : i \in 1..Len(interviews)}

QuestionIds == 0..2

(* the requests that write interviews of the given users and end with a    *)
(* rebuild, and the rebuild endpoint itself                                 *)
ServeWrites(S, U) ==
    \/ \E s \in S, user \in U, id \in InterviewIds, answers \in {<<>>, ClientAnswers} :
         CompleteFind(s, user, id, answers)
    \/ \E s \in S : CompleteSetAnswers(s)
    \/ \E s \in S : CompleteReread(s)
    \/ \E s \in S : CompleteUpdate(s)
    \/ \E s \in S, user \in U, id \in InterviewIds : DeleteFind(s, user, id)
    \/ \E s \in S : DeleteOne(s)
    \/ \E s \in S : RebuildRead(s)
    \/ \E s \in S, user \in U : RebuildStart(s, user)
    \/ \E s \in S : RebuildUpsert(s)

(* the endpoints serving the given users through the given slots *)
Serve(S, U) ==
    \/ \E s \in S, user \in U, setup \in Setups,
          outcome \in {"created", "no_resume", "no_questions"} :
         CreateInterview(s, user, setup, outcome)
    \/ \E s \in S, user \in U, id \in InterviewIds, question_id \in QuestionIds,
          mode \in {"skip", "empty", "answer"} :
         SubmitAnswerFind(s, user, id, question_id, mode)
    \/ \E s \in S : SubmitAnswerSkip(s)
    \/ \E s \in S, score \in AnswerScores : SubmitAnswerStore(s, score)
    \/ \E s \in S, user \in U : GetOrCreateFind(s, user)
    \/ ServeWrites(S, U)
    \/ Tick

(* A fresh deployment serving one request at a time *)

InitEmpty ==
    /\ interviews = <<>>
    /\ intelligence = <<>>
    /\ now = FirstTick
    /\ ret = NoCall
    /\ prev = NoCall
    /\ reqs = NoRequests
    /\ next_id = 1
    /\ accounts = SeededAccounts

NextSequential == Serve({1}, {"u1"})

SpecSequential == InitEmpty /\ [][NextSequential]_vars

(* Several workers on one database: a user with interviews under way and   *)
(* no summary yet; the requests of the workers interleave between their     *)
(* database operations and overlap within one reading of the clock          *)

Answered(interview, score) ==
    [interview EXCEPT !.answers = <<AnswerRecord(0, interview.questions[1], score)>>,
                      !.current_question_index = 1]

UnderWay ==
    <<Answered(NewInterview(1, "u1", CHOOSE x \in Setups : x.domain = "backend", 1),
               Num(80000)),
      Answered(NewInterview(2, "u1", CHOOSE x \in Setups : x.domain = "data", 2),
               Num(50000))>>

InitUnderWay ==
    /\ interviews = UnderWay
    /\ intelligence = <<>>
    /\ now = FirstTick
    /\ ret = NoCall
    /\ prev = NoCall
    /\ reqs = NoRequests
    /\ next_id = Len(UnderWay) + 1
    /\ accounts = SeededAccounts

NextWorkers == ServeWrites(Slots, {"u1"})

SpecWorkers == InitUnderWay /\ [][NextWorkers]_vars

(* the same requests served by one worker, one after the other *)
NextOneWorker == ServeWrites({1}, {"u1"})

SpecOneWorker == InitUnderWay /\ [][NextOneWorker]_vars

(* Several workers serving submit_answer for one interview just created:    *)
(* a request waits for evaluate_answer between its lookup and its update    *)
InitCreated ==
    /\ interviews \in {<<NewInterview(1, "u1", setup, 1)>> : setup \in Setups}
    /\ intelligence = <<>>
    /\ now = FirstTick
    /\ ret = NoCall
    /\ prev = NoCall
    /\ reqs = NoRequests
    /\ next_id = 2
    /\ accounts = SeededAccounts

NextSubmitters ==
    \/ \E s \in Slots, id \in InterviewIds, question_id \in QuestionIds,
          mode \in {"skip", "empty", "answer"} :
         SubmitAnswerFind(s, "u1", id, question_id, mode)
    \/ \E s \in Slots : SubmitAnswerSkip(s)
    \/ \E s \in Slots, score \in AnswerScores : SubmitAnswerStore(s, score)

SpecSubmitters == InitCreated /\ [][NextSubmitters]_vars

(* Two users on one deployment, each with an interview under way and one   *)
(* of them with a summary stored; every request may name any interview      *)
TwoTenants ==
    <<Answered(NewInterview(1, "u1", CHOOSE x \in Setups : x.domain = "backend", 1),
               Num(80000)),
      Answered(NewInterview(2, "u2", CHOOSE x \in Setups : x.domain = "backend", 2),
               Num(50000))>>

InitTenants ==
    /\ interviews = TwoTenants
    /\ intelligence \in {<<>>, <<Validated(Payload("u2", FindInterviews(TwoTenants, "u2"), 2))>>}
    /\ now = FirstTick
    /\ ret = NoCall
    /\ prev = NoCall
    /\ reqs = NoRequests
    /\ next_id = Len(TwoTenants) + 1
    /\ accounts = SeededAccounts

NextTenants ==
    \/ \E user \in Users, id \in InterviewIds, question_id \in QuestionIds,
          mode \in {"skip", "empty", "answer"} :
         SubmitAnswerFind(1, user, id, question_id, mode)
    \/ SubmitAnswerSkip(1)
    \/ \E score \in AnswerScores : SubmitAnswerStore(1, score)
    \/ \E user \in Users, id \in InterviewIds : GetInterview(1, user, id)
    \/ ServeWrites({1}, Users)

SpecTenants == InitTenants /\ [][NextTenants]_vars

(* The same two users on a deployment that also serves DELETE /account,     *)
(* one request at a time                                                    *)

(* delete_one({"_id": id}) on the users collection *)
DeleteUser(coll, id) ==
    LET match == {i \in 1..Len(coll) : coll[i]._id = id}
    IN IF match = {} THEN coll
       ELSE LET first == CHOOSE i \in match : \A j \in match : i <= j
            IN SubSeq(coll, 1, first - 1) \o SubSeq(coll, first + 1, Len(coll))

(* a delete that removes the first matching document only *)
DeleteFirstOf(coll, user) ==
    LET match == {i \in 1..Len(coll) : coll[i].user_id = user}
    IN IF match = {} THEN coll
       ELSE LET first == CHOOSE i \in match : \A j \in match : i <= j
            IN SubSeq(coll, 1, first - 1) \o SubSeq(coll, first + 1, Len(coll))

(* delete_many({"user_id": user}) *)
DeleteMany(coll, user) ==
    LET Others(d) == d.user_id # user
    IN SelectSeq(coll, Others)

(* delete_account: the six deletes, in the handler's order *)
DeleteAccount(user) ==
    /\ reqs = NoRequests
    /\ accounts' = [users |-> DeleteUser(accounts.users, user),
                    user_preferences |-> DeleteMany(accounts.user_preferences, user),
                    user_notifications |-> DeleteMany(accounts.user_notifications, user),
                    resumes |-> DeleteMany(accounts.resumes, user)]
    /\ interviews' = DeleteMany(interviews, user)
    /\ intelligence' = DeleteMany(intelligence, user)
    /\ ret' = Response("delete_account", user, FALSE, <<>>)
    /\ prev' = ret
    /\ now' = now /\ reqs' = reqs /\ next_id' = next_id

(* a summary for each of the two users, as their rebuilds stored them *)
TenantSummaries ==
    <<Validated(Payload("u2", FindInterviews(TwoTenants, "u2"), 2)),
      Validated(Payload("u1", FindInterviews(TwoTenants, "u1"), 1))>>

InitAccounts ==
    /\ interviews = TwoTenants
    /\ intelligence \in {<<>>, TenantSummaries}
    /\ now = FirstTick
    /\ ret = NoCall
    /\ prev = NoCall
    /\ reqs = NoRequests
    /\ next_id = Len(TwoTenants) + 1
    /\ accounts = SeededAccounts

NextAccounts ==
    \/ \E user \in Users : DeleteAccount(user)
    \/ \E user \in Users, id \in InterviewIds : GetInterview(1, user, id)
    \/ \E user \in Users : GetOrCreateFind(1, user)
    \/ ServeWrites({1}, Users)

SpecAccounts == InitAccounts /\ [][NextAccounts]_vars

(* The upsert of the summary as the database runs it for workers that race: *)
(* the query for a matching document and the insert for when there is none  *)
(* are two steps, and the unique index on user_id, created at line 152      *)
(* before every upsert, is what stands between two inserts for one user.    *)

(* a collection without the unique index accepts any insert *)
NoIndex(coll, user) == FALSE

(* the unique index on user_id rejects the insert of a second document for  *)
(* the user                                                                 *)
IndexRejects(coll, user) == \E i \in 1..Len(coll) : coll[i].user_id = user

(* update_one(..., upsert=True), the query: a matching document is updated  *)
(* where it is, with none the operation goes on to insert                   *)
UpsertMatch(s) ==
    /\ reqs[s].pc = "rebuild_write"
    /\ LET r == reqs[s]
       IN IF FindOne(intelligence, r.user) # <<>>
          THEN /\ intelligence' = UpdateOneSet(intelligence, r.user, r.payload[1])
               /\ Finish(s, Response(r.op, r.user, FALSE, <<RebuildResult(r.payload[1])>>))
          ELSE /\ intelligence' = intelligence
               /\ Goto(s, [r EXCEPT !.pc = "upsert_insert"])
    /\ UNCHANGED <<accounts, interviews, now, prev, next_id>>

(* update_one(..., upsert=True), the insert: when the index rejects it the  *)
(* server either runs the operation again, now as an update, or the driver  *)
(* raises DuplicateKeyError out of rebuild_user_intelligence                *)
UpsertInsert(s, retried) ==
    /\ reqs[s].pc = "upsert_insert"
    /\ LET r == reqs[s]
       IN IF IndexRejects(intelligence, r.user)
          THEN IF retried
               THEN /\ intelligence' = UpdateOneSet(intelligence, r.user, r.payload[1])
                    /\ Finish(s, Response(r.op, r.user, FALSE,
                                          <<RebuildResult(r.payload[1])>>))
               ELSE /\ intelligence' = intelligence
                    /\ Finish(s, Response(r.op, r.user, TRUE, <<>>))
          ELSE /\ intelligence' = Append(intelligence, r.payload[1])
               /\ Finish(s, Response(r.op, r.user, FALSE, <<RebuildResult(r.payload[1])>>))
    /\ UNCHANGED <<accounts, interviews, now, prev, next_id>>

SeededHistories == {<<>>, <<Seeded(1, 1, 1)>>, <<Seeded(4, 1, 1), Seeded(8, 2, 2)>>}

InitReaders ==
    /\ interviews \in SeededHistories
    /\ intelligence \in SeededSummaries
    /\ now = FirstTick
    /\ ret = NoCall
    /\ prev = NoCall
    /\ reqs = NoRequests
    /\ next_id = MaxInterviews + 1
    /\ accounts = SeededAccounts

(* workers serving rebuilds and reads of the summary *)
NextReaders ==
    \/ \E s \in Slots, user \in Users : RebuildStart(s, user)
    \/ \E s \in Slots, user \in Users : GetOrCreateFind(s, user)
    \/ \E s \in Slots : RebuildRead(s)
    \/ \E s \in Slots : UpsertMatch(s)
    \/ \E s \in Slots, retried \in BOOLEAN : UpsertInsert(s, retried)

SpecReaders == InitReaders /\ [][NextReaders]_vars

----------------------------------------------------------------------------
(* Properties of the aggregator *)

Rebuilt == ret.op = "rebuild" /\ ~ret.raised

(* the positions of a user's interview records, and of the completed ones *)
RecordsOf(user) == {i \in 1..Len(interviews) : interviews[i].user_id = user}

CompletedRecordsOf(user) == {i \in RecordsOf(user) : interviews[i].status = "completed"}

StoredSummary(user) == FindOne(intelligence, user)

SetSum(S, f) ==
    LET RECURSIVE Go(_)
        Go(T) == IF T = {} THEN 0
                 ELSE LET x == CHOOSE y \in T : TRUE IN f[x] + Go(T \ {x})
    IN Go(S)

(* C1: the summary a rebuild returns and stores has                        *)
(* completed_interviews + pending_interviews = total_interviews, with       *)
(* total_interviews the number of the user's interview records and          *)
(* completed_interviews the number whose status is exactly "completed",     *)
(* for any mixture of statuses.                                             *)
C1_CompletionAccounting ==
    Rebuilt =>
        LET r == ret.value[1]
            d == StoredSummary(ret.user)[1]
        IN /\ r.completed_interviews + r.pending_interviews = r.total_interviews
           /\ r.total_interviews = Cardinality(RecordsOf(ret.user))
           /\ r.completed_interviews = Cardinality(CompletedRecordsOf(ret.user))
           /\ d.total_interviews = r.total_interviews
           /\ d.completed_interviews = r.completed_interviews
           /\ d.pending_interviews = r.pending_interviews

(* a rebuild over completed, pending and in-progress interviews together *)
C1_Witness ==
    /\ Rebuilt
    /\ ret.value[1].total_interviews = 3
    /\ ret.value[1].completed_interviews = 1
    /\ ret.value[1].pending_interviews = 2
    /\ \E i \in RecordsOf(ret.user) : interviews[i].status = "in_progress"

WithoutTime(doc) == [doc EXCEPT !.updated_at = 0]

(* C2: a rebuild that directly follows a rebuild for the same user, the     *)
(* interview records unchanged in between, returns the same summary and     *)
(* leaves the same stored document, updated_at apart.                       *)
C2_RebuildIdempotent ==
    [][(/\ Rebuilt
        /\ now' = now + 1
        /\ ret'.op = "rebuild"
        /\ ret'.user = ret.user
        /\ interviews' = interviews)
       => /\ ~ret'.raised
          /\ WithoutTime(ret'.value[1]) = WithoutTime(ret.value[1])
          /\ Len(FindOne(intelligence', ret.user)) = 1
          /\ WithoutTime(FindOne(intelligence', ret.user)[1])
               = WithoutTime(StoredSummary(ret.user)[1])
          /\ Len(intelligence') = Len(intelligence)]_vars

(* two rebuilds in a row for a user with several interviews and an older   *)
(* summary in store                                                        *)
C2_Witness ==
    /\ Rebuilt
    /\ prev.op = "rebuild" /\ ~prev.raised /\ prev.user = ret.user
    /\ ret.value[1].completed_interviews >= 2
    /\ ret.value[1].updated_at > prev.value[1].updated_at
    /\ "domain_performance" \in DOMAIN StoredSummary(ret.user)[1]

(* C5: after a rebuild the stored document of the user is exactly the newly *)
(* computed payload, whatever document was stored before.                   *)
C5_StoredIsExactlyPayload ==
    Rebuilt =>
        StoredSummary(ret.user) =
            <<Validated(Payload(ret.user, FindInterviews(interviews, ret.user),
                                ret.value[1].updated_at))>>

(* the completed records of a user hold one interview id twice: the trend   *)
(* the rebuild assembles has duplicate ids                                  *)
DuplicateTrendIds(user) ==
    \E i, j \in CompletedRecordsOf(user) : i # j /\ interviews[i]._id = interviews[j]._id

(* C6: a rebuild whose validation guard fails raises and writes nothing:    *)
(* both collections are as they were.                                       *)
C6_FailedValidationWritesNothing ==
    [][(/\ now' = now + 1
        /\ ret'.op = "rebuild"
        /\ DuplicateTrendIds(ret'.user))
       => /\ ret'.raised
          /\ intelligence' = intelligence
          /\ interviews' = interviews]_vars

(* a rebuild has raised and the summary stored before it is still there *)
C6_Witness ==
    /\ ret.op = "rebuild" /\ ret.raised
    /\ DuplicateTrendIds(ret.user)
    /\ StoredSummary(ret.user) = <<LegacySummary>>

SummariesOf(coll, user) == {i \in 1..Len(coll) : coll[i].user_id = user}

(* C7: get_or_create never reports "not found".  With no summary stored it  *)
(* rebuilds: it returns the rebuild's result, counts and average computed   *)
(* from the user's interviews, and leaves exactly one stored summary; with  *)
(* a summary stored it returns that one and writes nothing.                 *)
C7_GetOrCreateNeverNotFound ==
    [][(now' = now + 1 /\ ret'.op = "get_or_create")
       => LET user == ret'.user
              done == CompletedRecordsOf(user)
              n == Cardinality(done)
              Score(i) == _extract_total_score(interviews[i])
              sum == SetSum(done, [i \in done |-> Score(i)])
          IN /\ ~ret'.raised
             /\ Len(ret'.value) = 1
             /\ Cardinality(SummariesOf(intelligence', user)) = 1
             /\ IF StoredSummary(user) = <<>>
                THEN LET r == ret'.value[1]
                         d == FindOne(intelligence', user)[1]
                     IN /\ r = RebuildResult(d)
                        /\ r.updated_at = now
                        /\ r.total_interviews = Cardinality(RecordsOf(user))
                        /\ r.completed_interviews = n
                        /\ n = 0 => r.average_score = 0
                        /\ n > 0 => /\ 2 * (r.average_score * n - sum) <= n
                                    /\ 2 * (sum - r.average_score * n) <= n
                ELSE /\ intelligence' = intelligence
                     /\ ret'.value[1] = CachedResult(StoredSummary(user)[1])
                     /\ ret'.value[1].total_interviews
                          = Get(StoredSummary(user)[1], "total_interviews", 0)]_vars

(* the first call is a get_or_create for a user with a completed interview *)
(* and no summary: the summary returned was built by this call             *)
C7_Witness ==
    /\ ret.op = "get_or_create" /\ ~ret.raised
    /\ prev.op = "none"
    /\ ret.value[1].updated_at = FirstTick
    /\ ret.value[1].completed_interviews = 1
    /\ ret.value[1].average_score = 6000
    /\ Cardinality(SummariesOf(intelligence, ret.user)) = 1

(* a get_or_create that found a summary and returned it *)
C7_WitnessCached ==
    /\ ret.op = "get_or_create" /\ ~ret.raised
    /\ prev.op = "none"
    /\ ret.value[1].total_interviews = 7
    /\ intelligence = <<LegacySummary>>

(* C8: average_score is the mean, rounded to 2 decimals, of the clamped     *)
(* total score over exactly the user's completed interviews, and 0 when     *)
(* there is none (completed scores 60, 80, 100 give 80).                    *)
C8_AverageScore ==
    Rebuilt =>
        LET done == CompletedRecordsOf(ret.user)
            n == Cardinality(done)
            Score(i) == _extract_total_score(interviews[i])
            sum == SetSum(done, [i \in done |-> Score(i)])
            avg == ret.value[1].average_score
        IN /\ n = 0 => avg = 0
           /\ n > 0 => /\ 2 * (avg * n - sum) <= n
                       /\ 2 * (sum - avg * n) <= n
           /\ StoredSummary(ret.user)[1].average_score = avg
           /\ {Score(i) : i \in done} = {6000, 8000, 10000} /\ n = 3 => avg = 8000

(* completed scores 60, 80 and 100, next to an interview that is not        *)
(* completed, average to 80                                                 *)
C8_Witness ==
    /\ Rebuilt
    /\ ret.value[1].completed_interviews = 3
    /\ ret.value[1].average_score = 8000
    /\ {_extract_total_score(interviews[i]) : i \in CompletedRecordsOf(ret.user)}
         = {6000, 8000, 10000}

(* a mean that needs rounding up: 60, 60 and 80 *)
C8_WitnessRounded ==
    /\ Rebuilt
    /\ ret.value[1].average_score = 6667

(* an interview with the score, skill and role fields blanked unless it is *)
(* completed                                                                *)
Blanked(d) ==
    IF d.status = "completed" THEN d
    ELSE [d EXCEPT !.total_score = NoneV, !.overall_score = Absent,
                   !.skill_scores = EmptyDict, !.skill_breakdown = NoDict,
                   !.role = 0, !.job_role = 0]

Aggregates(doc) ==
    [average_score |-> doc.average_score,
     skill_scores |-> doc.skill_scores,
     strongest_skill |-> doc.strongest_skill,
     weakest_skill |-> doc.weakest_skill,
     score_trend |-> doc.score_trend,
     role_breakdown |-> doc.role_breakdown,
     recommendations |-> doc.recommendations]

(* C9: the aggregate fields of a rebuilt summary are those of the same      *)
(* interview set with the score, skill and role fields of every             *)
(* non-completed interview blanked; so two sets that differ only in those   *)
(* fields give the same aggregates.                                         *)
C9_OnlyCompletedContribute ==
    Rebuilt =>
        LET blanked == [i \in 1..Len(interviews) |-> Blanked(interviews[i])]
        IN Aggregates(StoredSummary(ret.user)[1]) =
             Aggregates(Payload(ret.user, FindInterviews(blanked, ret.user), 0))

(* a rebuild over a completed interview and a non-completed one that        *)
(* carries a score, skills and a role                                       *)
C9_Witness ==
    /\ Rebuilt
    /\ ret.value[1].completed_interviews >= 1
    /\ \E i \in RecordsOf(ret.user) :
         /\ interviews[i].status # "completed"
         /\ _extract_total_score(interviews[i]) > 0
         /\ Blanked(interviews[i]) # interviews[i]

(* C10: score_trend lists exactly the user's completed interviews, in       *)
(* ascending creation time, with attempt numbers 1, 2, ..., n in that       *)
(* order, whatever the storage order.                                       *)
C10_TrendChronological ==
    Rebuilt =>
        LET trend == StoredSummary(ret.user)[1].score_trend
            done == CompletedRecordsOf(ret.user)
            Created(id) ==
                interviews[CHOOSE i \in done : interviews[i]._id = id].created_at
        IN /\ Len(trend) = Cardinality(done)
           /\ {trend[k].interview_id : k \in 1..Len(trend)}
                = {interviews[i]._id : i \in done}
           /\ \A k \in 1..Len(trend) : trend[k].attempt = k
           /\ \A k \in 1..Len(trend) :
                ret.value[1].trend[k].attempt = k
           /\ \A k, m \in 1..Len(trend) :
                k < m => Created(trend[k].interview_id) <= Created(trend[m].interview_id)

(* three completed interviews stored latest first: attempt 1 is the one     *)
(* stored last                                                              *)
C10_Witness ==
    /\ Rebuilt
    /\ Len(interviews) = 3
    /\ \A i \in 1..3 : interviews[i].status = "completed" /\ interviews[i].user_id = ret.user
    /\ interviews[1].created_at > interviews[2].created_at
    /\ interviews[2].created_at > interviews[3].created_at
    /\ StoredSummary(ret.user)[1].score_trend[1].interview_id = interviews[3]._id
    /\ StoredSummary(ret.user)[1].score_trend[3].attempt = 3

(* what rebuild_user_intelligence would store for the user now, the time    *)
(* of the rebuild aside                                                     *)
FreshSummary(user) ==
    WithoutTime(Validated(Payload(user, FindInterviews(interviews, user), 0)))

StoredIsFresh(user) ==
    \A i \in SummariesOf(intelligence, user) :
        WithoutTime(intelligence[i]) = FreshSummary(user)

Quiescent == \A s \in Slots : reqs[s].pc = "idle"

(* C3: for any interleaving of concurrent rebuilds, completions and        *)
(* deletions for one user, once every request in flight has finished, the   *)
(* stored summary of the user equals the summary computed from the          *)
(* interviews as they then are.                                             *)
C3_QuiescentSummaryIsFresh == Quiescent => StoredIsFresh("u1")

(* C4: after each of create interview, submit answer, complete interview   *)
(* and delete interview has finished, requests running one at a time, any   *)
(* stored summary of the user equals the summary computed from the user's   *)
(* current interviews.                                                      *)
C4_RebuiltOnEveryLifecycleEvent ==
    (/\ Quiescent
     /\ ret.op \in {"create", "submit_answer", "complete", "delete"}
     /\ ~ret.raised)
       => StoredIsFresh(ret.user)

----------------------------------------------------------------------------
(* Properties of the summary's fields *)

(* C11: in every summary document a rebuild persists, the entries of       *)
(* score_trend have pairwise distinct interview ids and pairwise distinct   *)
(* attempt numbers.                                                         *)
C11_TrendEntriesDistinct ==
    \A d \in 1..Len(intelligence) :
        LET trend == intelligence[d].score_trend
        IN \A i, j \in 1..Len(trend) :
              i # j => /\ trend[i].interview_id # trend[j].interview_id
                       /\ trend[i].attempt # trend[j].attempt

(* a rebuild has persisted a trend of several entries, from a store that    *)
(* also holds a second document under one interview id                      *)
C11_Witness ==
    /\ Rebuilt
    /\ StoredSummary(ret.user)[1].updated_at >= FirstTick
    /\ Len(StoredSummary(ret.user)[1].score_trend) >= 2
    /\ \E i, j \in RecordsOf(ret.user) : i # j /\ interviews[i]._id = interviews[j]._id

(* C12: the skill_scores map of every summary, returned or stored, has      *)
(* exactly the keys DSA, System Design, Behavioral, Communication, whatever *)
(* skill data the completed interviews carry.                               *)
C12_SkillKeysFixed ==
    /\ \A d \in 1..Len(intelligence) : DOMAIN intelligence[d].skill_scores = Skills
    /\ ret.value # <<>> => DOMAIN ret.value[1].skill_breakdown = Skills

(* a rebuild over completed interviews of which one carries keys beyond the *)
(* four skills and one carries a single skill                               *)
C12_Witness ==
    /\ Rebuilt
    /\ \E i \in CompletedRecordsOf(ret.user) : interviews[i].skill_scores.extra
    /\ \E i \in CompletedRecordsOf(ret.user) :
          /\ interviews[i].skill_scores.m["DSA"].k = "num"
          /\ interviews[i].skill_scores.m["Behavioral"].k = "absent"

(* the skill data an interview carries: skill_scores, else skill_breakdown *)
SkillDataOf(i) ==
    IF Truthy(interviews[i].skill_scores) THEN interviews[i].skill_scores
    ELSE IF Truthy(interviews[i].skill_breakdown) THEN interviews[i].skill_breakdown
    ELSE EmptyDict

(* the completed interviews of the user that carry a value for the skill *)
ContributorsOf(user, skill) ==
    {i \in CompletedRecordsOf(user) : SkillDataOf(i).m[skill].k = "num"}

(* every skill value of the user's completed interviews is a number from 0  *)
(* to 100, or is missing                                                    *)
PlainSkillData(user) ==
    \A i \in CompletedRecordsOf(user), skill \in Skills :
        LET value == SkillDataOf(i).m[skill]
        IN \/ value.k = "absent"
           \/ value.k = "num" /\ value.v >= 0 /\ value.v <= 100000

(* x is the mean sum / n to the nearest hundredth *)
IsMean(x, sum, n) == 2 * (x * n - sum) <= n /\ 2 * (sum - x * n) <= n

(* C13: skill_scores[s] is the mean over only those completed interviews   *)
(* that carry a value for skill s, and 0 for a skill none of them carries;  *)
(* a completed interview without a value for s does not enter the mean.     *)
C13_SkillMeanOverContributors ==
    (Rebuilt /\ PlainSkillData(ret.user)) =>
        \A skill \in Skills :
            LET from == ContributorsOf(ret.user, skill)
                sum == SetSum(from, [i \in from |-> _to_score(SkillDataOf(i).m[skill])])
                score == ret.value[1].skill_breakdown[skill]
            IN IF from = {} THEN score = 0
               ELSE IsMean(score, sum, Cardinality(from))

(* C14: for a user with no completed interview, pending ones or not, the    *)
(* rebuilt summary has every skill score 0 and strongest_skill =            *)
(* weakest_skill = "-"; with at least one completed interview both are      *)
(* names from the fixed skill set.                                          *)
C14_NoCompletedNoSkills ==
    Rebuilt =>
        LET r == ret.value[1]
            d == StoredSummary(ret.user)[1]
        IN /\ d.skill_scores = r.skill_breakdown
           /\ d.strongest_skill = r.strongest_skill
           /\ d.weakest_skill = r.weakest_skill
           /\ IF CompletedRecordsOf(ret.user) = {}
              THEN /\ \A skill \in Skills : r.skill_breakdown[skill] = 0
                   /\ r.strongest_skill = "-"
                   /\ r.weakest_skill = "-"
              ELSE /\ r.strongest_skill \in Skills
                   /\ r.weakest_skill \in Skills

(* a rebuild for a user whose interviews are all still open *)
C14_Witness ==
    /\ Rebuilt
    /\ CompletedRecordsOf(ret.user) = {}
    /\ Cardinality(RecordsOf(ret.user)) >= 2
    /\ ret.value[1].strongest_skill = "-"

(* a rebuild for a user whose only completed interview carries no skill     *)
(* data: every skill is 0 and the skills named are from the fixed set       *)
C14_WitnessCompleted ==
    /\ Rebuilt
    /\ CompletedRecordsOf(ret.user) # {}
    /\ \A skill \in Skills : ret.value[1].skill_breakdown[skill] = 0
    /\ ret.value[1].strongest_skill = "DSA"

(* the tip given when no rule triggers *)
MaintenanceTip == <<"Maintain consistency with advanced interview sets">>

(* C15: for a user with no interview at all, rebuild does not fail and      *)
(* yields a fully populated zero-valued summary (all counts 0,              *)
(* completion_rate 0, average_score 0, all skill scores 0, empty trend and  *)
(* role_breakdown) whose recommendations are the tip given when no rule     *)
(* triggers.                                                                *)
C15_EmptyHistoryDefaults ==
    (ret.op = "rebuild" /\ RecordsOf(ret.user) = {}) =>
        /\ ~ret.raised
        /\ LET r == ret.value[1]
           IN /\ r.total_interviews = 0
              /\ r.completed_interviews = 0
              /\ r.pending_interviews = 0
              /\ r.completion_rate = 0
              /\ r.average_score = 0
              /\ \A skill \in Skills : r.skill_breakdown[skill] = 0
              /\ r.trend = <<>>
              /\ r.role_breakdown = <<>>
              /\ r.recommendations = MaintenanceTip

(* C16: the recommendations of every rebuilt summary are non-empty for      *)
(* every interview history; when System Design >= 70, DSA >= 70 and         *)
(* average_score >= 75 they are exactly the tip given when no rule          *)
(* triggers.                                                                *)
C16_RecommendationsNeverEmpty ==
    Rebuilt =>
        LET r == ret.value[1]
            d == StoredSummary(ret.user)[1]
        IN /\ r.recommendations # <<>>
           /\ d.recommendations = r.recommendations
           /\ (/\ r.skill_breakdown["System Design"] >= 7000
               /\ r.skill_breakdown["DSA"] >= 7000
               /\ r.average_score >= 7500)
                 => r.recommendations = MaintenanceTip

(* a rebuild for a user whose every score is 100 *)
C16_Witness ==
    /\ Rebuilt
    /\ ret.value[1].average_score = 10000
    /\ \A skill \in Skills : ret.value[1].skill_breakdown[skill] = 10000
    /\ ret.value[1].recommendations = MaintenanceTip

(* the role value of an interview record: role, else job_role, else Unknown *)
RoleValueOf(i) ==
    IF interviews[i].role # 0 THEN interviews[i].role
    ELSE IF interviews[i].job_role # 0 THEN interviews[i].job_role
    ELSE RoleUnknown

(* C17: role_breakdown has exactly one entry per distinct role value among  *)
(* the completed interviews (role, else job_role, else Unknown), each with  *)
(* count the number of completed interviews of that role and average_score  *)
(* the mean of their scores, sorted by role name ascending.                 *)
C17_RoleBreakdown ==
    Rebuilt =>
        LET breakdown == ret.value[1].role_breakdown
            done == CompletedRecordsOf(ret.user)
            roles == {RoleValueOf(i) : i \in done}
        IN /\ StoredSummary(ret.user)[1].role_breakdown = breakdown
           /\ Len(breakdown) = Cardinality(roles)
           /\ {breakdown[k].role : k \in 1..Len(breakdown)} = roles
           /\ \A k, l \in 1..Len(breakdown) :
                 k < l => breakdown[k].role < breakdown[l].role
           /\ \A k \in 1..Len(breakdown) :
                 LET of_role == {i \in done : RoleValueOf(i) = breakdown[k].role}
                     sum == SetSum(of_role,
                                   [i \in of_role |-> _extract_total_score(interviews[i])])
                 IN /\ breakdown[k].count = Cardinality(of_role)
                    /\ IsMean(breakdown[k].average_score, sum, Cardinality(of_role))

(* two completed Data Engineer interviews scoring 80 and 100 give count 2   *)
(* and average 90, next to an entry for a role read from job_role           *)
C17_Witness ==
    /\ Rebuilt
    /\ Len(ret.value[1].role_breakdown) = 2
    /\ ret.value[1].role_breakdown[1].role = RoleBackend
    /\ ret.value[1].role_breakdown[2] =
         [role |-> RoleData, count |-> 2, average_score |-> 9000]
    /\ \E i \in CompletedRecordsOf(ret.user) :
          interviews[i].role = 0 /\ interviews[i].job_role = RoleBackend

----------------------------------------------------------------------------
(* Properties of the endpoints *)

(* C18: after an interview is deleted and the summary rebuilt, the summary *)
(* no longer counts it: total_interviews drops by one and average_score,    *)
(* trend and role_breakdown are computed from the remaining interviews      *)
(* only.  Stated of the step that ends a delete request, requests served    *)
(* one after the other.                                                     *)
C18_DeletedInterviewNotCounted ==
    [][(/\ reqs[1].op = "delete"
        /\ reqs[1].pc = "rebuild_write"
        /\ reqs'[1].pc = "idle")
       => LET user == reqs[1].user
              before == StoredSummary(user)
              after == FindOne(intelligence', user)
              left == {i \in 1..Len(interviews') : interviews'[i].user_id = user}
              done == {i \in left : interviews'[i].status = "completed"}
              sum == SetSum(done, [i \in done |-> _extract_total_score(interviews'[i])])
          IN /\ ret'.op = "delete" /\ ~ret'.raised
             /\ \A i \in left : interviews'[i]._id # reqs[1].iid
             /\ Len(after) = 1
             /\ after[1].total_interviews = Cardinality(left)
             /\ before # <<>> =>
                   after[1].total_interviews = before[1].total_interviews - 1
             /\ after[1].completed_interviews = Cardinality(done)
             /\ IF done = {} THEN after[1].average_score = 0
                ELSE IsMean(after[1].average_score, sum, Cardinality(done))
             /\ {after[1].score_trend[k].interview_id :
                   k \in 1..Len(after[1].score_trend)} = {interviews'[i]._id : i \in done}
             /\ SetSum(1..Len(after[1].role_breakdown),
                       [k \in 1..Len(after[1].role_breakdown) |->
                          after[1].role_breakdown[k].count]) = Cardinality(done)]_vars

(* the interview scoring 80 was deleted and the one scoring 50, completed,  *)
(* is left: the summary counts one interview and averages 50                *)
C18_Witness ==
    /\ ret.op = "delete" /\ ~ret.raised
    /\ Quiescent
    /\ Len(interviews) = 1
    /\ interviews[1].status = "completed"
    /\ StoredSummary("u1") # <<>>
    /\ StoredSummary("u1")[1].total_interviews = 1
    /\ StoredSummary("u1")[1].average_score = 5000
    /\ Len(StoredSummary("u1")[1].score_trend) = 1

----------------------------------------------------------------------------
(* Properties of the writes *)

(* C19: a successful rebuild_user_intelligence(u) performs exactly one      *)
(* document write, an upsert of u's summary in the intelligence store, and  *)
(* never modifies, inserts or deletes an interview record.                  *)
C19_RebuildWritesOneSummary ==
    [][(now' = now + 1 /\ ret'.op = "rebuild" /\ ~ret'.raised)
       => LET user == ret'.user
              n == Len(intelligence)
          IN /\ interviews' = interviews
             /\ IF SummariesOf(intelligence, user) = {}
                THEN /\ Len(intelligence') = n + 1
                     /\ SubSeq(intelligence', 1, n) = intelligence
                     /\ intelligence'[n + 1].user_id = user
                ELSE /\ Len(intelligence') = n
                     /\ \E i \in SummariesOf(intelligence, user) :
                           /\ intelligence'[i] # intelligence[i]
                           /\ intelligence'[i].user_id = user
                           /\ \A j \in 1..n : j # i => intelligence'[j] = intelligence[j]]_vars

(* a rebuild has updated the summary of one user in place, next to the      *)
(* summary of the other user                                                *)
C19_Witness ==
    /\ Rebuilt
    /\ prev.op = "rebuild" /\ ~prev.raised /\ prev.user # ret.user
    /\ Len(intelligence) = 2
    /\ intelligence[1].user_id = ret.user
    /\ intelligence[1].updated_at = ret.value[1].updated_at
    /\ "domain_performance" \in DOMAIN intelligence[1]
    /\ Len(interviews) >= 2

(* C20: in every reachable state the intelligence store holds at most one   *)
(* summary document per user id, including when several rebuilds, or        *)
(* get-or-create calls on an absent summary, run concurrently for one user. *)
C20_OneSummaryPerUser ==
    \A user \in Users : Cardinality(SummariesOf(intelligence, user)) <= 1

(* two requests found no summary for the user and went on to insert; one    *)
(* has inserted and the other is about to                                   *)
C20_Witness ==
    \E s \in Slots :
        /\ reqs[s].pc = "upsert_insert"
        /\ ret.user = reqs[s].user
        /\ ret.op = "get_or_create" /\ ~ret.raised
        /\ ret.value[1].updated_at = FirstTick
        /\ Cardinality(SummariesOf(intelligence, reqs[s].user)) = 1

(* the request whose insert the index rejected has raised, and the store    *)
(* holds the one summary the other request inserted                         *)
C20_WitnessRejected ==
    /\ Quiescent
    /\ ret.raised
    /\ Cardinality(SummariesOf(intelligence, ret.user)) = 1

----------------------------------------------------------------------------
(* The aggregator called on completed interviews whose scores are missing,  *)
(* null, not numbers, or outside 0..100                                     *)

DirtyScores ==
    {Absent, NoneV, BadStr, Num(-5000), Num(150000), Num(70125), Num(100004)}

(* a completed interview of u1 that carries the raw value as total_score,   *)
(* as overall_score and as its DSA score                                    *)
DirtyInterview(id, raw) ==
    Interview(id, "u1", "completed", IF raw.k = "num" THEN RoleBackend ELSE RoleData, 0,
              raw, Num(-1000), FullSkills(raw, Absent, Num(100004), Num(-5000)),
              NoDict, id, id, id)

InitDirty ==
    /\ interviews \in
         UNION {{[i \in 1..n |-> DirtyInterview(i, raws[i])] : raws \in [1..n -> DirtyScores]}
                : n \in 1..DayLen}
    /\ intelligence \in SeededSummaries
    /\ now = FirstTick
    /\ ret = NoCall
    /\ prev = NoCall
    /\ reqs = NoRequests
    /\ next_id = MaxInterviews + 1
    /\ accounts = SeededAccounts

SpecDirty == InitDirty /\ [][Next]_vars

----------------------------------------------------------------------------
(* Further properties of the aggregator *)

(* the first position in the fixed skill order whose score no other beats   *)
FirstMaxPosition(scores) ==
    CHOOSE k \in 1..4 :
        /\ \A j \in 1..4 : scores[REQUIRED_SKILLS[j]] <= scores[REQUIRED_SKILLS[k]]
        /\ \A j \in 1..(k - 1) : scores[REQUIRED_SKILLS[j]] < scores[REQUIRED_SKILLS[k]]

FirstMinPosition(scores) ==
    CHOOSE k \in 1..4 :
        /\ \A j \in 1..4 : scores[REQUIRED_SKILLS[j]] >= scores[REQUIRED_SKILLS[k]]
        /\ \A j \in 1..(k - 1) : scores[REQUIRED_SKILLS[j]] > scores[REQUIRED_SKILLS[k]]

(* C23: with at least one completed interview, strongest_skill is the      *)
(* first skill in the order DSA, System Design, Behavioral, Communication   *)
(* that attains the largest aggregated score and weakest_skill the first    *)
(* that attains the smallest; when all four are equal both are DSA.         *)
C23_FirstInOrderWins ==
    (Rebuilt /\ CompletedRecordsOf(ret.user) # {}) =>
        LET r == ret.value[1]
        IN /\ REQUIRED_SKILLS = <<"DSA", "System Design", "Behavioral", "Communication">>
           /\ r.strongest_skill = REQUIRED_SKILLS[FirstMaxPosition(r.skill_breakdown)]
           /\ r.weakest_skill = REQUIRED_SKILLS[FirstMinPosition(r.skill_breakdown)]
           /\ (\A a, b \in Skills : r.skill_breakdown[a] = r.skill_breakdown[b])
                 => r.strongest_skill = "DSA" /\ r.weakest_skill = "DSA"

(* every aggregated skill score is 100: both skills named are DSA *)
C23_Witness ==
    /\ Rebuilt
    /\ CompletedRecordsOf(ret.user) # {}
    /\ \A skill \in Skills : ret.value[1].skill_breakdown[skill] = 10000
    /\ ret.value[1].strongest_skill = "DSA"
    /\ ret.value[1].weakest_skill = "DSA"

(* two skills share the smallest score and the earlier one is named *)
C23_WitnessPartialTie ==
    /\ Rebuilt
    /\ ret.value[1].skill_breakdown["Behavioral"] = ret.value[1].skill_breakdown["DSA"]
    /\ ret.value[1].skill_breakdown["System Design"] > ret.value[1].skill_breakdown["DSA"]
    /\ ret.value[1].skill_breakdown["Communication"] > ret.value[1].skill_breakdown["DSA"]
    /\ ret.value[1].weakest_skill = "DSA"

RoundTripFields ==
    {"total_interviews", "completed_interviews", "pending_interviews", "completion_rate",
     "average_score", "role_readiness", "strongest_skill", "weakest_skill",
     "skill_breakdown", "trend", "role_breakdown", "recommendations"}

(* C29: with no write in between, get_or_create_user_intelligence(u) called *)
(* after rebuild_user_intelligence(u) returns the values the rebuild        *)
(* returned, field by field.                                                *)
C29_ReadAfterRebuild ==
    [][(/\ Rebuilt
        /\ now' = now + 1
        /\ ret'.op = "get_or_create"
        /\ ret'.user = ret.user)
       => /\ ~ret'.raised
          /\ \A field \in RoundTripFields : ret'.value[1][field] = ret.value[1][field]]_vars

(* a read that followed a rebuild over several completed interviews, one    *)
(* of them with a score the rebuild had to round                            *)
C29_Witness ==
    /\ ret.op = "get_or_create" /\ ~ret.raised
    /\ prev.op = "rebuild" /\ ~prev.raised /\ prev.user = ret.user
    /\ Len(ret.value[1].trend) >= 2
    /\ \E k \in 1..Len(ret.value[1].trend) : ret.value[1].trend[k].score = 7012
    /\ Len(ret.value[1].role_breakdown) >= 1

InRange(score) == score \in 0..10000

(* C22: every score of a summary returned by a rebuild or a cached read     *)
(* lies in [0, 100] (average_score, role_readiness, every skill score,      *)
(* every trend score, every role_breakdown average, completion_rate), and   *)
(* an interview score that is missing, null, not a number, negative or      *)
(* above 100 does not make the rebuild fail.                                *)
C22_ScoresInRange ==
    (ret.op \in {"rebuild", "get_or_create"}) =>
        /\ ~ret.raised
        /\ LET r == ret.value[1]
           IN /\ InRange(r.average_score)
              /\ InRange(r.role_readiness)
              /\ InRange(r.completion_rate)
              /\ \A skill \in Skills : InRange(r.skill_breakdown[skill])
              /\ \A k \in 1..Len(r.trend) : InRange(r.trend[k].score)
              /\ \A k \in 1..Len(r.role_breakdown) : InRange(r.role_breakdown[k].average_score)

(* a rebuild over a score above 100 and a score that is not a number: the   *)
(* first is clamped to 100, the second counted as 0                         *)
C22_Witness ==
    /\ Rebuilt
    /\ \E i, j \in RecordsOf(ret.user) :
          /\ interviews[i].total_score = Num(150000)
          /\ interviews[j].total_score = BadStr
    /\ ret.value[1].average_score = 5000
    /\ \E k \in 1..Len(ret.value[1].trend) : ret.value[1].trend[k].score = 10000
    /\ \E k \in 1..Len(ret.value[1].trend) : ret.value[1].trend[k].score = 0

(* a rebuild over a negative score and a missing total_score, whose         *)
(* negative overall_score is used in its place                              *)
C22_WitnessNegative ==
    /\ Rebuilt
    /\ \E i, j \in RecordsOf(ret.user) :
          /\ interviews[i].total_score = Num(-5000)
          /\ interviews[j].total_score = Absent
    /\ ret.value[1].average_score = 0

(* the stored summary documents of a user, in storage order *)
SummaryDocsOf(coll, user) ==
    LET Mine(d) == d.user_id = user
    IN SelectSeq(coll, Mine)

(* C21: rebuilds for different users are independent.  The payload a        *)
(* rebuild for a user assembles counts that user's interviews only and its  *)
(* trend names that user's interviews only, and the stored summary of a     *)
(* user changes only in the write of a rebuild for that user, however the   *)
(* steps of rebuilds for other users are interleaved with it.               *)
C21_RebuildsIndependent ==
    [][/\ \A s \in Slots :
            (reqs[s].pc # "rebuild_write" /\ reqs'[s].pc = "rebuild_write") =>
               LET p == reqs'[s].payload[1]
                   u == reqs'[s].user
               IN /\ p.user_id = u
                  /\ p.total_interviews = Cardinality(RecordsOf(u))
                  /\ p.completed_interviews = Cardinality(CompletedRecordsOf(u))
                  /\ \A k \in 1..Len(p.score_trend) :
                        \E i \in RecordsOf(u) : interviews[i]._id = p.score_trend[k].interview_id
       /\ \A v \in Users :
            (SummaryDocsOf(intelligence', v) # SummaryDocsOf(intelligence, v)) =>
               \E s \in Slots : /\ reqs[s].user = v
                                /\ reqs[s].pc \in {"rebuild_write", "upsert_insert"}
                                /\ reqs'[s] = Idle
       /\ interviews' = interviews]_vars

(* a rebuild for u1 has just stored its summary while a rebuild for u2 is   *)
(* between its read and its write, both users have interviews, and the      *)
(* summary an earlier rebuild stored for u2 is where it was                 *)
C21_Witness ==
    /\ Rebuilt /\ ret.user = "u1"
    /\ RecordsOf("u1") # {} /\ RecordsOf("u2") # {}
    /\ StoredSummary("u1") # <<>>
    /\ StoredSummary("u1")[1].total_interviews = 1
    /\ StoredSummary("u1")[1].updated_at > FirstTick - 1
    /\ StoredSummary("u2") # <<>>
    /\ StoredSummary("u2")[1].completed_interviews = 1
    /\ \E s \in Slots : reqs[s].user = "u2" /\ reqs[s].pc = "rebuild_write"

----------------------------------------------------------------------------
(* Further properties of the endpoints *)

(* C25: delete_interview deletes only interviews of the current user that   *)
(* are in progress: a delete request that has run its delete_one had found  *)
(* an interview of its user that was not completed.                         *)
C25_DeletesOnlyInProgress ==
    \A s \in Slots :
        (reqs[s].op = "delete" /\ reqs[s].pc \in {"rebuild_read", "rebuild_write"}) =>
            /\ reqs[s].interview[1].user_id = reqs[s].user
            /\ reqs[s].interview[1].status # "completed"

(* the stored interview with an id, as a sequence of zero or one document *)
StoredInterview(coll, id) ==
    LET Hit(d) == d._id = id
        hits == SelectSeq(coll, Hit)
    IN IF hits = <<>> THEN <<>> ELSE <<hits[1]>>

CompletionFields == {"status", "total_score", "skill_scores", "completed_at"}

(* C28: the status of an interview moves from pending to completed and      *)
(* never back.  A submit or complete request that finds its interview       *)
(* completed ends at the lookup and writes nothing to the interviews or to  *)
(* the summaries, and when complete requests race for one pending interview *)
(* status, total_score, skill_scores and completed_at are set once: after   *)
(* the interview is completed no step changes any of them.                  *)
C28_CompletedOnce ==
    [][/\ \A id \in InterviewIds :
            LET before == StoredInterview(interviews, id)
                after == StoredInterview(interviews', id)
            IN (before[1].status = "completed" /\ after # <<>>) =>
                  \A field \in CompletionFields : after[1][field] = before[1][field]
       /\ (ret' # ret /\ ret'.op = "complete" /\ reqs' = reqs) =>
             (interviews' = interviews /\ intelligence' = intelligence)
       /\ \A s \in Slots :
            (reqs[s].pc = "idle" /\ reqs'[s].op = "complete") =>
               /\ StoredInterview(interviews, reqs'[s].iid)[1].status # "completed"
               /\ interviews' = interviews /\ intelligence' = intelligence]_vars

(* two complete requests raced for interview 1, one holding the stored      *)
(* answer (80) and one the answers its client sent (70); both are past      *)
(* their update and the interview carries the completion of one of them     *)
C28_Witness ==
    /\ \A s \in Slots : /\ reqs[s].op = "complete" /\ reqs[s].iid = 1
                        /\ reqs[s].pc \in {"rebuild_read", "rebuild_write"}
    /\ \E s, t \in Slots : /\ reqs[s].interview[1].answers # reqs[t].interview[1].answers
                           /\ reqs[s].interview[1].status = "pending"
                           /\ reqs[t].interview[1].status = "pending"
    /\ StoredInterview(interviews, 1)[1].status = "completed"
    /\ StoredInterview(interviews, 1)[1].total_score \in {Num(80000), Num(70000)}

(* a complete request for an interview already completed was answered at    *)
(* the lookup                                                               *)
C28_WitnessAlreadyCompleted ==
    /\ ret.op = "complete" /\ ~ret.raised /\ ret.value = <<>>
    /\ \E i \in 1..Len(interviews) : interviews[i].status = "completed"

(* C26: a completed interview is immutable: its answers are the ones its    *)
(* completion was computed from, so the stored total_score of a completed   *)
(* interview is the rounded mean of the scores of its stored answers, and   *)
(* its current_question_index is the number of its questions.               *)
C26_CompletedIsImmutable ==
    \A i \in 1..Len(interviews) :
        interviews[i].status = "completed" =>
            /\ interviews[i].total_score = Stored(MeanOf(interviews[i].answers, "score"))
            /\ interviews[i].current_question_index = Len(interviews[i].questions)

(* C27: answers are accepted in order and at most once per question: the    *)
(* answers list of an interview never holds two records with the same       *)
(* question_id, and current_question_index stays within                     *)
(* 0..len(questions), under any interleaving of submit_answer requests.     *)
C27_OneAnswerPerQuestion ==
    \A i \in 1..Len(interviews) :
        /\ interviews[i].current_question_index \in 0..Len(interviews[i].questions)
        /\ \A a, b \in 1..Len(interviews[i].answers) :
              interviews[i].answers[a].question_id = interviews[i].answers[b].question_id
                 => a = b

(* the stored interviews of a user, in storage order *)
InterviewDocsOf(coll, user) ==
    LET Mine(d) == d.user_id = user
    IN SelectSeq(coll, Mine)

(* C30: a submit_answer, submit/complete, get or delete request of one user *)
(* that names another user's interview is rejected at its lookup: no        *)
(* request goes past its lookup holding an interview of another user, a get *)
(* returns only an interview of its caller, and the interviews and the      *)
(* summary of a user change only in steps of that user's own requests.      *)
C30_OthersInterviewsNotFound ==
    [][/\ \A s \in Slots :
            (reqs'[s].pc # "idle" /\ reqs'[s].iid # 0) =>
               /\ reqs'[s].interview[1].user_id = reqs'[s].user
               /\ reqs'[s].interview[1]._id = reqs'[s].iid
       /\ (ret'.op = "get" /\ ~ret'.raised) => ret'.value[1].user_id = ret'.user
       /\ \A v \in Users :
            (\/ InterviewDocsOf(interviews', v) # InterviewDocsOf(interviews, v)
             \/ SummaryDocsOf(intelligence', v) # SummaryDocsOf(intelligence, v))
            => \E s \in Slots : /\ reqs[s].user = v
                                /\ reqs[s].pc # "idle"
                                /\ reqs'[s] # reqs[s]]_vars

(* u1 asked to delete an interview and was answered "not found" while the   *)
(* only interview u1 does not own, u2's, is stored with u2's summary as     *)
(* they were at the start, and u1's own interview is still there            *)
C30_Witness ==
    /\ ret.op = "delete" /\ ret.raised /\ ret.user = "u1"
    /\ RecordsOf("u1") # {}
    /\ InterviewDocsOf(interviews, "u2") = InterviewDocsOf(TwoTenants, "u2")
    /\ StoredSummary("u2") # <<>>
    /\ StoredSummary("u2")[1].updated_at = 2

(* the same for a complete request of u1 *)
C30_WitnessComplete ==
    /\ ret.op = "complete" /\ ret.raised /\ ret.user = "u1"
    /\ RecordsOf("u1") # {}
    /\ InterviewDocsOf(interviews, "u2") = InterviewDocsOf(TwoTenants, "u2")

(* u2 read its own interview *)
C30_WitnessOwnGet ==
    /\ ret.op = "get" /\ ~ret.raised /\ ret.user = "u2"
    /\ ret.value[1]._id = 2

(* the documents of the four account collections keyed by a user *)
AccountDocsOf(acc, user) ==
    LET IsUser(d) == d._id = user
        Mine(d) == d.user_id = user
    IN [users |-> SelectSeq(acc.users, IsUser),
        user_preferences |-> SelectSeq(acc.user_preferences, Mine),
        user_notifications |-> SelectSeq(acc.user_notifications, Mine),
        resumes |-> SelectSeq(acc.resumes, Mine)]

NoAccountDocs ==
    [users |-> <<>>, user_preferences |-> <<>>, user_notifications |-> <<>>,
     resumes |-> <<>>]

(* C24: after delete_account(u) no document keyed by u remains in users,    *)
(* interviews, career_intelligence, user_preferences, user_notifications    *)
(* or resumes, the documents of every other user are as they were, and no   *)
(* other operation removes a user's stored summary.                         *)
C24_AccountDeleted ==
    [][/\ (ret'.op = "delete_account" /\ ret' # ret) =>
            /\ AccountDocsOf(accounts', ret'.user) = NoAccountDocs
            /\ InterviewDocsOf(interviews', ret'.user) = <<>>
            /\ SummaryDocsOf(intelligence', ret'.user) = <<>>
            /\ \A v \in Users \ {ret'.user} :
                  /\ AccountDocsOf(accounts', v) = AccountDocsOf(accounts, v)
                  /\ InterviewDocsOf(interviews', v) = InterviewDocsOf(interviews, v)
                  /\ SummaryDocsOf(intelligence', v) = SummaryDocsOf(intelligence, v)
       /\ \A v \in Users :
            Len(SummaryDocsOf(intelligence', v)) < Len(SummaryDocsOf(intelligence, v)) =>
               (ret'.op = "delete_account" /\ ret'.user = v /\ ret' # ret)
       /\ (accounts' # accounts) => (ret'.op = "delete_account" /\ ret' # ret)]_vars

(* u1 completed an interview, which stored u1's summary, and then deleted   *)
(* the account: nothing of u1 is left, and u2's account, preferences,       *)
(* notification settings, resume, interview and summary are all there       *)
C24_Witness ==
    /\ ret.op = "delete_account" /\ ret.user = "u1"
    /\ prev.op = "complete" /\ prev.user = "u1" /\ ~prev.raised /\ prev.value # <<>>
    /\ accounts = [users |-> <<[_id |-> "u2"]>>,
                   user_preferences |-> <<[user_id |-> "u2"]>>,
                   user_notifications |-> <<[user_id |-> "u2"]>>,
                   resumes |-> <<[_id |-> 2, user_id |-> "u2"]>>]
    /\ Len(interviews) = 1 /\ interviews[1].user_id = "u2"
    /\ Len(intelligence) = 1 /\ intelligence[1].user_id = "u2"

============================================================================
